---- MODULE Spec2Model ----
(***************************************************************************)
(* xfetch: an HTTP request pipeline around the fetch primitive.            *)
(*                                                                         *)
(* Strings are sequences of one-character strings, so that the character   *)
(* tests of the code (startsWith, endsWith, length, slice, the placeholder *)
(* pattern, percent-encoding, toUpperCase) are computed as the code        *)
(* computes them.  JavaScript values are tagged records: Undef, Null,      *)
(* Str(s), Arr(items), Fn(n).  An operation that may throw yields Ok(v) or *)
(* Throw(e).                                                               *)
(***************************************************************************)
EXTENDS Integers, Sequences, FiniteSets, TLC

VARIABLES
    req,        \* the call's arguments: urlLike and the fields of requestInit
    env,        \* the host: whether document / window exist, document.cookie
    pc,         \* where the call is: "init", "fetching", "reading", "done"
    loc,        \* the call's locals: method, url, headers, contentType, body, response
    trace,      \* what the call has done so far, in order
    outcome,    \* what the caller has got: pending, returned or thrown
    input,      \* the arguments of a URL-builder function called on its own
    output,     \* its result, NotRun before the function ran
    other,      \* a second call in flight on the same host: its req, pc, loc,
                \* trace and outcome; NoCall when there is none
    href        \* window.location.href, and the calls that have written it

pipeVars == <<req, env, pc, loc, trace, outcome, other, href>>
pureVars == <<input, output>>
vars == <<req, env, pc, loc, trace, outcome, input, output, other, href>>

----------------------------------------------------------------------------
(* Bounds *)

\* longest base URL, path prefix and path drawn for createUrl
MaxSegLen == 3
\* most keys in a query-parameter mapping
MaxKeys == 2
\* longest sequence value of a query parameter
MaxArr == 2

----------------------------------------------------------------------------
(* JavaScript values and strings *)

Undef == [t |-> "undefined"]
Str(s) == [t |-> "string", s |-> s]
Arr(items) == [t |-> "array", items |-> items]
Fn(n) == [t |-> "function", name |-> n]

Ok(v) == [threw |-> FALSE, val |-> v]
Throw(e) == [threw |-> TRUE, exc |-> e]

NotRun == [t |-> "notrun"]

RECURSIVE Concat(_)
Concat(ss) == IF ss = <<>> THEN <<>> ELSE Head(ss) \o Concat(Tail(ss))

RECURSIVE Join(_, _)
Join(ss, sep) ==
    IF ss = <<>> THEN <<>>
    ELSE IF Len(ss) = 1 THEN ss[1]
    ELSE ss[1] \o sep \o Join(Tail(ss), sep)

StartsWith(s, p) == Len(s) >= Len(p) /\ SubSeq(s, 1, Len(p)) = p
EndsWith(s, p) == Len(s) >= Len(p) /\ SubSeq(s, Len(s) - Len(p) + 1, Len(s)) = p

Contains(s, part) ==
    \E i \in 1..(Len(s) - Len(part) + 1) : SubSeq(s, i, i + Len(part) - 1) = part

\* all strings over alphabet A of length at most n
StrsUpTo(A, n) == UNION {[1..k -> A] : k \in 0..n}

UNDEFINED == <<"u","n","d","e","f","i","n","e","d">>

\* String(v), the conversion URLSearchParams and String.prototype.replace apply
RECURSIVE ToStr(_)
ToStr(v) ==
    CASE v.t = "string" -> v.s
      [] v.t = "undefined" -> UNDEFINED
      [] v.t = "array" -> Join([i \in 1..Len(v.items) |-> ToStr(v.items[i])], <<",">>)
      [] v.t = "function" -> <<"f", "u", "n", "c", "t", "i", "o", "n", " ">> \o v.name \o <<"(", ")", " ", "{", " ", "[", "n", "a", "t", "i", "v", "e", " ", "c", "o", "d", "e", "]", " ", "}">>
      [] OTHER -> <<"[","o","b","j","e","c","t"," ","O","b","j","e","c","t","]">>

\* a UTF-16 code unit that is half of a surrogate pair, standing alone
LoneSurrogate == "\\uD800"

Unreserved ==
    {"a","b","c","d","e","f","g","h","i","j","k","l","m","n","o","p","q","r","s","t",
     "u","v","w","x","y","z","A","B","C","D","E","F","G","H","I","J","K","L","M","N",
     "O","P","Q","R","S","T","U","V","W","X","Y","Z",
     "0","1","2","3","4","5","6","7","8","9","-","_",".","!","~","*","'","(",")"}

PercentCode(ch) ==
    CASE ch = "/" -> <<"%","2","F">>
      [] ch = ":" -> <<"%","3","A">>
      [] ch = " " -> <<"%","2","0">>
      [] ch = "," -> <<"%","2","C">>
      [] ch = "=" -> <<"%","3","D">>
      [] ch = "&" -> <<"%","2","6">>
      [] ch = "?" -> <<"%","3","F">>
      [] ch = "{" -> <<"%","7","B">>
      [] ch = "}" -> <<"%","7","D">>
      [] ch = "[" -> <<"%","5","B">>
      [] ch = "]" -> <<"%","5","D">>
      [] ch = "%" -> <<"%","2","5">>
      [] OTHER -> <<"%","?","?">>

\* encodeURIComponent(s): throws URIError on a lone surrogate
encodeURIComponent(s) ==
    IF \E i \in 1..Len(s) : s[i] = LoneSurrogate
    THEN Throw([type |-> "URIError"])
    ELSE Ok(Concat([i \in 1..Len(s) |->
                IF s[i] \in Unreserved THEN <<s[i]>> ELSE PercentCode(s[i])]))

\* the application/x-www-form-urlencoded byte serializer of URLSearchParams
FormEncode(s) ==
    Concat([i \in 1..Len(s) |->
        IF s[i] \in (Unreserved \ {"!","~","'","(",")"}) THEN <<s[i]>>
        ELSE IF s[i] = " " THEN <<"+">>
        ELSE PercentCode(s[i])])

----------------------------------------------------------------------------
(* Caller-supplied formatters (ParamFormatter): absent, returning the      *)
(* value unchanged, returning a new string, or throwing.                   *)

NoFormat == "none"
Formatters == {"identity", "tagged", "throws"}

FormatterError == [type |-> "Error", from |-> "formatter"]

ApplyFormat(f, key, value) ==
    CASE f = "identity" -> Ok(value)
      [] f = "tagged" -> Ok(Str(<<"f">> \o ToStr(value)))
      [] OTHER -> Throw(FormatterError)

----------------------------------------------------------------------------
(* URL builder: src/src/system.ts *)

normalizePath(path) ==
    IF path = <<>> \/ path = <<"/">> THEN <<>>
    ELSE IF ~StartsWith(path, <<"/">>) THEN <<"/">> \o path
    ELSE IF Len(path) > 1 /\ EndsWith(path, <<"/">>) THEN SubSeq(path, 1, Len(path) - 1)
    ELSE path

normalizeUrl(url) ==
    IF Len(url) > 1 /\ EndsWith(url, <<"/">>) THEN SubSeq(url, 1, Len(url) - 1)
    ELSE url

(* URLSearchParams: a list of [k, v] string pairs *)
ParamsAppend(params, k, v) == Append(params, [k |-> k, v |-> ToStr(v)])

ParamsSet(params, k, v) ==
    IF \E i \in 1..Len(params) : params[i].k = k
    THEN LET first == CHOOSE i \in 1..Len(params) :
                        /\ params[i].k = k
                        /\ \A j \in 1..(i - 1) : params[j].k # k
             keep == SelectSeq([i \in 1..Len(params) |-> [i |-> i, e |-> params[i]]],
                               LAMBDA x : x.e.k # k \/ x.i = first)
         IN [i \in 1..Len(keep) |->
                IF keep[i].i = first THEN [k |-> k, v |-> ToStr(v)] ELSE keep[i].e]
    ELSE ParamsAppend(params, k, v)

ParamsToString(params) ==
    Join([i \in 1..Len(params) |->
            FormEncode(params[i].k) \o <<"=">> \o FormEncode(params[i].v)], <<"&">>)

RECURSIVE AppendAll(_, _, _)
AppendAll(params, k, items) ==
    IF items = <<>> THEN params
    ELSE AppendAll(ParamsAppend(params, k, Head(items)), k, Tail(items))

(* queryParams(queryParams, format): the for-in loop over the mapping's    *)
(* entries, in their order; a pre-built URLSearchParams is returned as is. *)
RECURSIVE QueryLoop(_, _, _)
QueryLoop(entries, format, params) ==
    IF entries = <<>> THEN Ok(params)
    ELSE LET key == Head(entries).key
             value == Head(entries).value
         IN IF value # Undef
            THEN IF format # NoFormat
                 THEN LET f == ApplyFormat(format, key, value)
                      IN IF f.threw THEN f
                         ELSE QueryLoop(Tail(entries), format, ParamsSet(params, key, f.val))
                 ELSE IF value.t = "array"
                 THEN QueryLoop(Tail(entries), format, AppendAll(params, key, value.items))
                 ELSE QueryLoop(Tail(entries), format, ParamsSet(params, key, value))
            ELSE QueryLoop(Tail(entries), format, params)

queryParams(qp, format) ==
    IF qp.t = "URLSearchParams" THEN Ok(qp.entries)
    ELSE QueryLoop(qp.entries, format, <<>>)

NameChars ==
    {"a","b","c","d","e","f","g","h","i","j","k","l","m","n","o","p","q","r","s","t",
     "u","v","w","x","y","z","A","B","C","D","E","F","G","H","I","J","K","L","M","N",
     "O","P","Q","R","S","T","U","V","W","X","Y","Z",
     "0","1","2","3","4","5","6","7","8","9","_"}

\* the end of the longest run of name characters of path starting at i
RECURSIVE NameEnd(_, _)
NameEnd(path, i) ==
    IF i < Len(path) /\ path[i + 1] \in NameChars THEN NameEnd(path, i + 1) ELSE i

CONSTRUCTOR == <<"c","o","n","s","t","r","u","c","t","o","r">>
TOSTRING == <<"t","o","S","t","r","i","n","g">>

\* members every object literal inherits from Object.prototype
ObjectPrototype == {CONSTRUCTOR, TOSTRING}

\* pathVariables[variable]: an own property, else an inherited one, else undefined
PropertyGet(obj, name) ==
    IF name \in DOMAIN obj.own THEN obj.own[name]
    ELSE IF name \in ObjectPrototype
         THEN Fn(IF name = CONSTRUCTOR THEN <<"O","b","j","e","c","t">> ELSE name)
         ELSE Undef

\* path.replace(/:([a-zA-Z0-9_]+)/g, callback), scanning from position i
RECURSIVE ReplaceFrom(_, _, _, _)
ReplaceFrom(path, i, pathVariables, format) ==
    IF i > Len(path) THEN Ok(<<>>)
    ELSE IF path[i] = ":" /\ i < Len(path) /\ path[i + 1] \in NameChars
    THEN LET last == NameEnd(path, i + 1)
             variable == SubSeq(path, i + 1, last)
             value == PropertyGet(pathVariables, variable)
             piece == IF value = Undef THEN Ok(<<":">> \o variable)
                      ELSE IF format # NoFormat
                      THEN LET f == ApplyFormat(format, variable, value)
                           IN IF f.threw THEN f ELSE Ok(ToStr(f.val))
                      ELSE encodeURIComponent(ToStr(value))
             rest == ReplaceFrom(path, last + 1, pathVariables, format)
         IN IF piece.threw THEN piece
            ELSE IF rest.threw THEN rest
            ELSE Ok(piece.val \o rest.val)
    ELSE LET rest == ReplaceFrom(path, i + 1, pathVariables, format)
         IN IF rest.threw THEN rest ELSE Ok(<<path[i]>> \o rest.val)

replacePathVariables(path, pathVariables, format) ==
    ReplaceFrom(path, 1, pathVariables, format)

NoQuery == [t |-> "map", entries |-> <<>>]

createUrl(path, requestInit) ==
    LET params == queryParams(requestInit.queryParams, requestInit.formatQueryParams)
    IN IF params.threw THEN params
       ELSE LET queryStr == IF Len(params.val) > 0
                            THEN <<"?">> \o ParamsToString(params.val) ELSE <<>>
                baseUrl == IF requestInit.baseUrl # <<>>
                           THEN normalizeUrl(requestInit.baseUrl) ELSE <<>>
                joined == (IF requestInit.pathPrefix # <<>>
                           THEN normalizePath(requestInit.pathPrefix) ELSE <<>>)
                          \o normalizePath(path)
                replaced == IF requestInit.pathVariables # Undef
                               /\ Cardinality(DOMAIN requestInit.pathVariables.own) > 0
                            THEN replacePathVariables(joined, requestInit.pathVariables,
                                                      requestInit.formatPathVariables)
                            ELSE Ok(joined)
            IN IF replaced.threw THEN replaced
               ELSE Ok(baseUrl \o replaced.val \o queryStr)

\* a requestInit that sets nothing the URL builder reads
PlainUrlInit ==
    [baseUrl |-> <<>>, pathPrefix |-> <<>>, pathVariables |-> Undef,
     formatPathVariables |-> NoFormat, queryParams |-> NoQuery,
     formatQueryParams |-> NoFormat]

----------------------------------------------------------------------------
(* Headers, the WHATWG class: names are case-insensitive (kept lower-case) *)
(* and must be HTTP tokens, or the constructor / set throws TypeError.     *)

Null == [t |-> "null"]
Unset == [t |-> "unset"]

LowerAlpha == <<"a", "b", "c", "d", "e", "f", "g", "h", "i", "j", "k", "l", "m", "n", "o", "p", "q", "r", "s", "t", "u", "v", "w", "x", "y", "z">>
UpperAlpha == <<"A", "B", "C", "D", "E", "F", "G", "H", "I", "J", "K", "L", "M", "N", "O", "P", "Q", "R", "S", "T", "U", "V", "W", "X", "Y", "Z">>

UpperChar(c) ==
    IF \E i \in 1..Len(LowerAlpha) : LowerAlpha[i] = c
    THEN UpperAlpha[CHOOSE i \in 1..Len(LowerAlpha) : LowerAlpha[i] = c]
    ELSE c

LowerChar(c) ==
    IF \E i \in 1..Len(UpperAlpha) : UpperAlpha[i] = c
    THEN LowerAlpha[CHOOSE i \in 1..Len(UpperAlpha) : UpperAlpha[i] = c]
    ELSE c

toUpperCase(s) == [i \in 1..Len(s) |-> UpperChar(s[i])]
toLowerCase(s) == [i \in 1..Len(s) |-> LowerChar(s[i])]

HeaderNameChars == (Unreserved \ {"(", ")"}) \cup {"#", "%", "&", "+", "^", "|"}

ValidHeaderName(n) == n # <<>> /\ \A i \in 1..Len(n) : n[i] \in HeaderNameChars

HeaderTypeError == [type |-> "TypeError", from |-> "Headers"]

HeadersGet(h, name) ==
    IF toLowerCase(name) \in DOMAIN h THEN Str(h[toLowerCase(name)]) ELSE Null

HeadersSet(h, name, value) ==
    IF ~ValidHeaderName(name) THEN Throw(HeaderTypeError)
    ELSE Ok([n \in DOMAIN h \cup {toLowerCase(name)} |->
                IF n = toLowerCase(name) THEN value ELSE h[n]])

HeadersAppend(h, name, value) ==
    IF ~ValidHeaderName(name) THEN Throw(HeaderTypeError)
    ELSE IF toLowerCase(name) \in DOMAIN h
    THEN Ok([h EXCEPT ![toLowerCase(name)] = @ \o <<",", " ">> \o value])
    ELSE HeadersSet(h, name, value)

\* new Headers(init): init is the caller's list of [name, value] pairs
RECURSIVE HeadersFill(_, _)
HeadersFill(h, init) ==
    IF init = <<>> THEN Ok(h)
    ELSE LET next == HeadersAppend(h, Head(init).name, Head(init).value)
         IN IF next.threw THEN next ELSE HeadersFill(next.val, Tail(init))

NewHeaders(init) == HeadersFill(<<>>, init)

CONTENT_TYPE == <<"C", "o", "n", "t", "e", "n", "t", "-", "T", "y", "p", "e">>
X_CSRF_TOKEN == <<"X", "-", "C", "S", "R", "F", "-", "T", "O", "K", "E", "N">>

----------------------------------------------------------------------------
(* Request bodies.  A body is a value of one of the classes the pipeline   *)
(* tests for, a string, or another value: a plain object (a list of        *)
(* [k, v] string properties, possibly referring to itself), a function.    *)

InstanceOf(v, class) ==
    CASE class = "FormData" -> v.t = "FormData"
      [] class = "Blob" -> v.t \in {"Blob", "File"}
      [] class = "URLSearchParams" -> v.t = "URLSearchParams"
      [] OTHER -> FALSE

JsonTypeError == [type |-> "TypeError", from |-> "JSON.stringify"]

\* JSON.stringify(v): the JSON text, undefined for a function, TypeError for
\* a structure that refers to itself
JSONstringify(v) ==
    CASE v.t = "object" ->
            IF v.cyclic THEN Throw(JsonTypeError)
            ELSE Ok(Str(<<"{">> \o Join([i \in 1..Len(v.props) |->
                        <<"\"">> \o v.props[i].k \o <<"\"", ":", "\"">> \o v.props[i].v \o <<"\"">>],
                        <<",">>) \o <<"}">>))
      [] v.t = "string" -> Ok(Str(<<"\"">> \o v.s \o <<"\"">>))
      [] v.t = "null" -> Ok(Str(<<"n", "u", "l", "l">>))
      [] OTHER -> Ok(Undef)

\* BodyCodec classifying the body whatever Content-Type the caller set
BodyCodecIgnoringCallerType(body, contentType) ==
    IF body = Undef THEN Ok([contentType |-> contentType, body |-> Undef])
    ELSE IF body.t = "string" THEN Ok([contentType |-> Str(<<"t", "e", "x", "t", "/", "p", "l", "a", "i", "n">>), body |-> body])
    ELSE IF body.t \in {"FormData", "Blob", "File", "URLSearchParams"}
    THEN Ok([contentType |-> contentType, body |-> body])
    ELSE LET text == JSONstringify(body)
         IN IF text.threw THEN text
            ELSE Ok([contentType |-> Str(<<"a", "p", "p", "l", "i", "c", "a", "t", "i", "o", "n", "/", "j", "s", "o", "n">>), body |-> text.val])

\* BodyCodec without the Blob test: a blob falls through to JSON
BodyCodecWithoutBlobCase(body, contentType) ==
    IF body = Undef THEN Ok([contentType |-> contentType, body |-> Undef])
    ELSE IF contentType # Null THEN Ok([contentType |-> contentType, body |-> body])
    ELSE IF InstanceOf(body, "FormData") THEN Ok([contentType |-> Null, body |-> body])
    ELSE IF InstanceOf(body, "URLSearchParams")
    THEN Ok([contentType |-> Str(<<"a", "p", "p", "l", "i", "c", "a", "t", "i", "o", "n", "/", "x", "-", "w", "w", "w", "-", "f", "o", "r", "m", "-", "u", "r", "l", "e", "n", "c", "o", "d", "e", "d">>), body |-> body])
    ELSE IF body.t = "string"
    THEN Ok([contentType |-> Str(<<"t", "e", "x", "t", "/", "p", "l", "a", "i", "n">>), body |-> body])
    ELSE Ok([contentType |-> Str(<<"a", "p", "p", "l", "i", "c", "a", "t", "i", "o", "n", "/", "j", "s", "o", "n">>), body |-> Str(<<"{", "}">>)])

\* BodyCodec without the test for an absent body: undefined is serialized
BodyCodecEncodingAbsentBody(body, contentType) ==
    IF contentType # Null THEN Ok([contentType |-> contentType, body |-> body])
    ELSE IF body = Undef THEN Ok([contentType |-> Str(<<"a", "p", "p", "l", "i", "c", "a", "t", "i", "o", "n", "/", "j", "s", "o", "n">>), body |-> Undef])
    ELSE Ok([contentType |-> Null, body |-> body])

\* fetch.ts 112-146: the content type and the payload, or the exception the
\* try block catches
BodyCodec(body, contentType) ==
    IF body = Undef THEN Ok([contentType |-> contentType, body |-> Undef])
    ELSE IF contentType # Null THEN Ok([contentType |-> contentType, body |-> body])
    ELSE IF InstanceOf(body, "FormData") THEN Ok([contentType |-> Null, body |-> body])
    ELSE IF InstanceOf(body, "Blob")
    THEN Ok([contentType |-> Str(<<"a", "p", "p", "l", "i", "c", "a", "t", "i", "o", "n", "/", "o", "c", "t", "e", "t", "-", "s", "t", "r", "e", "a", "m">>), body |-> body])
    ELSE IF InstanceOf(body, "URLSearchParams")
    THEN Ok([contentType |-> Str(<<"a", "p", "p", "l", "i", "c", "a", "t", "i", "o", "n", "/", "x", "-", "w", "w", "w", "-", "f", "o", "r", "m", "-", "u", "r", "l", "e", "n", "c", "o", "d", "e", "d">>), body |-> body])
    ELSE IF body.t = "string"
    THEN Ok([contentType |-> Str(<<"t", "e", "x", "t", "/", "p", "l", "a", "i", "n">>), body |-> body])
    ELSE LET text == JSONstringify(body)
         IN IF text.threw THEN text
            ELSE Ok([contentType |-> Str(<<"a", "p", "p", "l", "i", "c", "a", "t", "i", "o", "n", "/", "j", "s", "o", "n">>), body |-> text.val])

----------------------------------------------------------------------------
(* CSRF header: fetch.ts 152-173 *)

RECURSIVE SplitFrom(_, _, _)
\* the pieces of s between occurrences of the character sep, cur being the
\* piece under construction
SplitFrom(s, sep, cur) ==
    IF s = <<>> THEN <<cur>>
    ELSE IF Head(s) = sep THEN <<cur>> \o SplitFrom(Tail(s), sep, <<>>)
    ELSE SplitFrom(Tail(s), sep, Append(cur, Head(s)))

Split(s, sep) == SplitFrom(s, sep, <<>>)

RECURSIVE TrimStart(_)
TrimStart(s) == IF s # <<>> /\ Head(s) = " " THEN TrimStart(Tail(s)) ELSE s

RECURSIVE TrimEnd(_)
TrimEnd(s) == IF s # <<>> /\ s[Len(s)] = " " THEN TrimEnd(SubSeq(s, 1, Len(s) - 1)) ELSE s

Trim(s) == TrimEnd(TrimStart(s))

ReferenceError == [type |-> "ReferenceError", from |-> "document"]

\* document.cookie.split(";").find(c => c.trim().startsWith(name))?.split("=")[1] ?? ""
CookieValue(e, cookieName) ==
    IF ~e.hasDocument THEN Throw(ReferenceError)
    ELSE LET cookies == Split(e.cookie, ";")
             hits == SelectSeq(cookies, LAMBDA c : StartsWith(Trim(c), cookieName))
         IN IF hits = <<>> THEN Ok(<<>>)
            ELSE LET parts == Split(hits[1], "=")
                 IN IF Len(parts) >= 2 THEN Ok(parts[2]) ELSE Ok(<<>>)

CsrfMethods == {<<"P", "O", "S", "T">>, <<"P", "U", "T">>, <<"D", "E", "L", "E", "T", "E">>, <<"P", "A", "T", "C", "H">>}


\* the matcher without the defaultMatcher method test
CsrfMatchesAnyMethod(r, method) == r.csrf # Undef

CsrfMatches(r, method) ==
    r.csrf # Undef /\ (~r.csrf.defaultMatcher \/ method \in CsrfMethods)

CsrfToken(r, e) ==
    IF r.csrf.token # <<>> THEN Ok(r.csrf.token)
    ELSE IF r.csrf.fromCookie # <<>> THEN CookieValue(e, r.csrf.fromCookie)
    ELSE Ok(<<>>)

CsrfInject(r, e, method, headers) ==
    IF CsrfMatches(r, method)
    THEN LET token == CsrfToken(r, e)
         IN IF token.threw THEN token
            ELSE HeadersSet(headers,
                    IF r.csrf.headerName # <<>> THEN r.csrf.headerName ELSE X_CSRF_TOKEN,
                    token.val)
    ELSE Ok(headers)

----------------------------------------------------------------------------
(* Response decoding helpers: src/src/system.ts 91-99 *)

HexDigits == {"0","1","2","3","4","5","6","7","8","9","A","B","C","D","E","F",
              "a","b","c","d","e","f"}

URIError == [type |-> "URIError"]

\* the character a %XX escape stands for; "" for a byte that is no character
\* on its own (malformed UTF-8)
PercentDecode(hi, lo) ==
    CASE <<hi, lo>> = <<"2", "0">> -> " "
      [] <<hi, lo>> = <<"2", "F">> -> "/"
      [] <<hi, lo>> = <<"2", "C">> -> ","
      [] <<hi, lo>> = <<"3", "A">> -> ":"
      [] <<hi, lo>> = <<"2", "5">> -> "%"
      [] hi \in {"0","1","2","3","4","5","6","7"} -> "?"
      [] OTHER -> ""

RECURSIVE decodeURIComponent(_)
decodeURIComponent(s) ==
    IF s = <<>> THEN Ok(<<>>)
    ELSE IF Head(s) = "%"
    THEN IF Len(s) >= 3 /\ s[2] \in HexDigits /\ s[3] \in HexDigits
              /\ PercentDecode(s[2], s[3]) # ""
         THEN LET rest == decodeURIComponent(SubSeq(s, 4, Len(s)))
              IN IF rest.threw THEN rest ELSE Ok(<<PercentDecode(s[2], s[3])>> \o rest.val)
         ELSE Throw(URIError)
    ELSE LET rest == decodeURIComponent(Tail(s))
         IN IF rest.threw THEN rest ELSE Ok(<<Head(s)>> \o rest.val)

FILENAME == <<"f", "i", "l", "e", "n", "a", "m", "e">>
UTF8_QUOTES == <<"u", "t", "f", "-", "8", "'", "'">>
NameStop == {"\"", "'", ";"}

\* the end of the longest run of characters outside NameStop starting at i
\* (i - 1 when there is none)
RECURSIVE RunEnd(_, _)
RunEnd(s, i) == IF i <= Len(s) /\ s[i] \notin NameStop THEN RunEnd(s, i + 1) ELSE i - 1

\* group 1 of /["']?([^"';]+)["']?/ anchored at k, or <<>> when it cannot match
QuotedRun(s, k) ==
    LET from == IF k <= Len(s) /\ s[k] \in {"\"", "'"} THEN k + 1 ELSE k
    IN SubSeq(s, from, RunEnd(s, from))

\* group 1 of /filename\*?=(?:UTF-8'')?["']?([^"';]+)["']?/i anchored at i
MatchAt(s, i) ==
    IF ~(i + Len(FILENAME) - 1 <= Len(s)
         /\ toLowerCase(SubSeq(s, i, i + Len(FILENAME) - 1)) = FILENAME)
    THEN <<>>
    ELSE LET j == i + Len(FILENAME)
             eq == IF j <= Len(s) /\ s[j] = "*" THEN j + 1 ELSE j
         IN IF ~(eq <= Len(s) /\ s[eq] = "=") THEN <<>>
            ELSE LET k == eq + 1
                     withCharset ==
                        IF k + Len(UTF8_QUOTES) - 1 <= Len(s)
                           /\ toLowerCase(SubSeq(s, k, k + Len(UTF8_QUOTES) - 1)) = UTF8_QUOTES
                        THEN QuotedRun(s, k + Len(UTF8_QUOTES))
                        ELSE <<>>
                 IN IF withCharset # <<>> THEN withCharset ELSE QuotedRun(s, k)

RECURSIVE FirstMatch(_, _)
FirstMatch(s, i) ==
    IF i > Len(s) THEN <<>>
    ELSE IF MatchAt(s, i) # <<>> THEN MatchAt(s, i)
    ELSE FirstMatch(s, i + 1)

contentDispositionToFileName(contentDisposition) ==
    IF contentDisposition = Null \/ contentDisposition.s = <<>> THEN Ok(Null)
    ELSE LET fileNameMatch == FirstMatch(contentDisposition.s, 1)
         IN IF fileNameMatch # <<>>
            THEN LET name == decodeURIComponent(fileNameMatch)
                 IN IF name.threw THEN name ELSE Ok(Str(name.val))
            ELSE Ok(Null)

SyntaxError == [type |-> "SyntaxError", from |-> "JSON.parse"]
ReviverError == [type |-> "Error", from |-> "jsonReviver"]

\* JSON.parse(text, reviver): the parsed value, SyntaxError for text that is
\* not JSON, or what the reviver throws
JSONparse(text, reviver) ==
    IF ~(Len(text) >= 2 /\ Head(text) = "{" /\ text[Len(text)] = "}") THEN Throw(SyntaxError)
    ELSE IF reviver = "throws" THEN Throw(ReviverError)
    ELSE Ok([t |-> "parsed", text |-> text, revived |-> reviver # "none"])

----------------------------------------------------------------------------
(* xfetch: src/src/fetch.ts 99-262.  The call runs in three stretches,     *)
(* split at its two awaits: Prepare (to the fetch call), AfterResponse (to *)
(* a body read or the end), AfterRead.  Each yields the call's next        *)
(* [pc, loc, trace, outcome].                                              *)

GET == <<"G", "E", "T">>


\* an XFetchError that drops the response it is given
XFetchErrorWithoutResponse(method, message, response, cause) ==
    [type |-> "XFetchError", method |-> method, message |-> message,
     response |-> Null, cause |-> cause]

XFetchError(method, message, response, cause) ==
    [type |-> "XFetchError", method |-> method, message |-> message,
     response |-> response, cause |-> cause]

Pending == [kind |-> "pending"]
Thrown(exc) == [kind |-> "thrown", exc |-> exc]
Returned(v) == [kind |-> "returned", value |-> v]

Finish(l, tr, out) == [pc |-> "done", loc |-> l, trace |-> tr, outcome |-> out]

\* an exception leaves the call
Unwind(l, tr, exc) == Finish(l, Append(tr, [ev |-> "throw", exc |-> exc]), Thrown(exc))

Return(l, tr, v) == Finish(l, Append(tr, [ev |-> "return", value |-> v]), Returned(v))

\* what a throwing onError hook throws
HookError == [type |-> "Error", from |-> "onError"]

\* throwErr without the hook
throwErrUnreported(r, l, tr, error) == Unwind(l, tr, error)

\* fetch.ts 102-105
throwErr(r, l, tr, error) ==
    IF r.onError # "none"
    THEN LET called == Append(tr, [ev |-> "onError", error |-> error])
         IN IF r.onError = "throws" THEN Unwind(l, called, HookError)
            ELSE Unwind(l, called, error)
    ELSE Unwind(l, tr, error)

\* throwErr(new XFetchError(...))
Fail(r, l, tr, error) ==
    throwErr(r, l, Append(tr, [ev |-> "construct", error |-> error]), error)

\* fetch.ts 106
Method(r) == toUpperCase(IF r.method # Undef /\ r.method.s # <<>> THEN r.method.s ELSE GET)

Truthy(v) == v # Null /\ v # Undef /\ v.s # <<>>

EmptyLoc ==
    [method |-> Unset, url |-> Unset, headers |-> Unset, contentType |-> Unset,
     body |-> Unset, response |-> Unset, read |-> Unset]


\* FetchCall resolving the URL against window.location.href as it then is
FetchCallFromCurrentPage(r, l) ==
    [ev |-> "fetch", url |-> href.value \o l.url, method |-> r.method,
     headers |-> l.headers, body |-> l.body]

\* fetch.ts 180-189: what the transport is called with
FetchCall(r, l) ==
    [ev |-> "fetch", url |-> l.url, method |-> r.method, headers |-> l.headers,
     body |-> l.body]

\* fetch.ts 150-189, after the body is encoded
Dispatch(r, e, l, tr) ==
    LET typed == IF Truthy(l.contentType)
                 THEN HeadersSet(l.headers, CONTENT_TYPE, l.contentType.s).val
                 ELSE l.headers
        l1 == [l EXCEPT !.headers = typed]
        t1 == Append(tr, [ev |-> "contentType"])
        withCsrf == CsrfInject(r, e, l.method, typed)
    IN IF withCsrf.threw THEN Unwind(l1, t1, withCsrf.exc)
       ELSE LET l2 == [l1 EXCEPT !.headers = withCsrf.val]
                t2 == Append(t1, [ev |-> "csrf"])
            IN [pc |-> "fetching", loc |-> l2, trace |-> Append(t2, FetchCall(r, l2)),
                outcome |-> Pending]

\* fetch.ts 106-146
Prepare(r, e) ==
    LET l0 == [EmptyLoc EXCEPT !.method = Method(r)]
        url == createUrl(r.urlLike, r)
    IN IF url.threw THEN Unwind(l0, <<>>, url.exc)
       ELSE LET l1 == [l0 EXCEPT !.url = url.val]
                t1 == <<[ev |-> "createUrl"]>>
                headers == NewHeaders(r.headers)
            IN IF headers.threw THEN Unwind(l1, t1, headers.exc)
               ELSE LET l2 == [l1 EXCEPT !.headers = headers.val]
                        t2 == Append(t1, [ev |-> "headers"])
                        enc == BodyCodec(r.body, HeadersGet(headers.val, CONTENT_TYPE))
                    IN IF enc.threw
                       THEN Fail(r, l2, t2, XFetchError(l0.method, "Failed to serialize body",
                                                        Null, enc.exc))
                       ELSE Dispatch(r, e,
                                [l2 EXCEPT !.contentType = enc.val.contentType,
                                           !.body = enc.val.body],
                                Append(t2, [ev |-> "body"]))

Includes(s, part) == Contains(s, part)

ResponseBody(response) == [t |-> "ReadableStream", of |-> response.url]


\* AwaitRead invoking the body-consumption operation twice
AwaitReadTwice(l, tr, op, then) ==
    [pc |-> "reading", loc |-> [l EXCEPT !.read = [op |-> op, then |-> then]],
     trace |-> Append(Append(tr, [ev |-> "read", op |-> op]), [ev |-> "read", op |-> op]),
     outcome |-> Pending]

\* suspend at a body read: op is the Response method awaited, then what is
\* done with its result
AwaitRead(l, tr, op, then) ==
    [pc |-> "reading", loc |-> [l EXCEPT !.read = [op |-> op, then |-> then]],
     trace |-> Append(tr, [ev |-> "read", op |-> op]),
     outcome |-> Pending]


\* StartParse reading an application/octet-stream body as text
StartParseOctetStreamAsText(r, l, tr) ==
    LET resContentType == HeadersGet(l.response.headers, <<"c", "o", "n", "t", "e", "n", "t", "-", "t", "y", "p", "e">>)
    IN CASE r.responseResolution = "raw" -> Return(l, tr, ResponseBody(l.response))
         [] r.responseResolution = "void" -> Return(l, tr, Undef)
         [] r.responseResolution = "response" -> Return(l, tr, l.response)
         [] r.responseResolution = "blob" -> AwaitRead(l, tr, "blob", "blob")
         [] r.responseResolution = "file" -> AwaitRead(l, tr, "blob", "file")
         [] OTHER ->
            IF ~Truthy(resContentType) THEN Return(l, tr, ResponseBody(l.response))
            ELSE IF Includes(resContentType.s, <<"a", "p", "p", "l", "i", "c", "a", "t", "i", "o", "n", "/", "j", "s", "o", "n">>)
            THEN IF r.jsonReviver # "none" THEN AwaitRead(l, tr, "text", "parse")
                 ELSE AwaitRead(l, tr, "json", "json")
            ELSE IF Includes(resContentType.s, <<"a", "p", "p", "l", "i", "c", "a", "t", "i", "o", "n", "/", "o", "c", "t", "e", "t", "-", "s", "t", "r", "e", "a", "m">>)
            THEN AwaitRead(l, tr, "text", "text")
            ELSE IF Includes(resContentType.s, <<"t", "e", "x", "t", "/", "p", "l", "a", "i", "n">>)
            THEN AwaitRead(l, tr, "text", "text")
            ELSE Return(l, tr, ResponseBody(l.response))

\* fetch.ts 218-256, to the first await
StartParse(r, l, tr) ==
    LET resContentType == HeadersGet(l.response.headers, <<"c", "o", "n", "t", "e", "n", "t", "-", "t", "y", "p", "e">>)
    IN CASE r.responseResolution = "raw" -> Return(l, tr, ResponseBody(l.response))
         [] r.responseResolution = "void" -> Return(l, tr, Undef)
         [] r.responseResolution = "response" -> Return(l, tr, l.response)
         [] r.responseResolution = "blob" -> AwaitRead(l, tr, "blob", "blob")
         [] r.responseResolution = "file" -> AwaitRead(l, tr, "blob", "file")
         [] OTHER ->
            IF ~Truthy(resContentType) THEN Return(l, tr, ResponseBody(l.response))
            ELSE IF Includes(resContentType.s, <<"a", "p", "p", "l", "i", "c", "a", "t", "i", "o", "n", "/", "j", "s", "o", "n">>)
            THEN IF r.jsonReviver # "none" THEN AwaitRead(l, tr, "text", "parse")
                 ELSE AwaitRead(l, tr, "json", "json")
            ELSE IF Includes(resContentType.s, <<"a", "p", "p", "l", "i", "c", "a", "t", "i", "o", "n", "/", "o", "c", "t", "e", "t", "-", "s", "t", "r", "e", "a", "m">>)
            THEN AwaitRead(l, tr, "blob", "blob")
            ELSE IF Includes(resContentType.s, <<"t", "e", "x", "t", "/", "p", "l", "a", "i", "n">>)
            THEN AwaitRead(l, tr, "text", "text")
            ELSE Return(l, tr, ResponseBody(l.response))


\* AfterResponse without the ok check of fetch.ts 194-201
AfterResponseWithoutOkCheck(r, e, l0, tr0, response) ==
    StartParse(r, [l0 EXCEPT !.response = response],
               Append(Append(Append(tr0, [ev |-> "response"]), [ev |-> "checkOk"]),
                      [ev |-> "checkRedirect"]))


\* AfterResponse taking the redirect path of fetch.ts 209-214 for every
\* redirected response, forceFollowRedirects or not
AfterResponseRedirectUnforced(r, e, l0, tr0, response) ==
    LET l == [l0 EXCEPT !.response = response]
        tr == Append(Append(tr0, [ev |-> "response"]), [ev |-> "checkOk"])
    IN IF ~response.ok
       THEN IF r.opaqueOk /\ response.type = "opaque" THEN Return(l, tr, Undef)
            ELSE Fail(r, l, tr, XFetchError(l.method, "Response not ok", response, Undef))
       ELSE LET t1 == Append(tr, [ev |-> "checkRedirect"])
            IN IF response.redirected
               THEN LET header == HeadersGet(response.headers, <<"L", "o", "c", "a", "t", "i", "o", "n">>)
                        location == IF header # Null THEN header.s ELSE response.url
                        t2 == IF e.hasWindow
                              THEN Append(t1, [ev |-> "navigate", href |-> location])
                              ELSE t1
                    IN Fail(r, l, t2, XFetchError(l.method, "Redirected", response,
                                                  Str(location)))
               ELSE StartParse(r, l, t1)


\* AfterResponse with the redirect check of fetch.ts 209-214 ahead of the ok
\* check of 194-201
AfterResponseRedirectFirst(r, e, l0, tr0, response) ==
    LET l == [l0 EXCEPT !.response = response]
        tr == Append(Append(tr0, [ev |-> "response"]), [ev |-> "checkRedirect"])
    IN IF r.forceFollowRedirects /\ response.redirected
       THEN LET header == HeadersGet(response.headers, <<"L", "o", "c", "a", "t", "i", "o", "n">>)
                location == IF header # Null THEN header.s ELSE response.url
                t2 == IF e.hasWindow
                      THEN Append(tr, [ev |-> "navigate", href |-> location])
                      ELSE tr
            IN Fail(r, l, t2, XFetchError(l.method, "Redirected", response, Str(location)))
       ELSE LET t1 == Append(tr, [ev |-> "checkOk"])
            IN IF ~response.ok
               THEN IF r.opaqueOk /\ response.type = "opaque" THEN Return(l, t1, Undef)
                    ELSE Fail(r, l, t1,
                              XFetchError(l.method, "Response not ok", response, Undef))
               ELSE StartParse(r, l, t1)

\* fetch.ts 194-219, once fetch has resolved
AfterResponse(r, e, l0, tr0, response) ==
    LET l == [l0 EXCEPT !.response = response]
        tr == Append(Append(tr0, [ev |-> "response"]), [ev |-> "checkOk"])
    IN IF ~response.ok
       THEN IF r.opaqueOk /\ response.type = "opaque" THEN Return(l, tr, Undef)
            ELSE Fail(r, l, tr, XFetchError(l.method, "Response not ok", response, Undef))
       ELSE LET t1 == Append(tr, [ev |-> "checkRedirect"])
            IN IF r.forceFollowRedirects /\ response.redirected
               THEN LET header == HeadersGet(response.headers, <<"L", "o", "c", "a", "t", "i", "o", "n">>)
                        location == IF header # Null THEN header.s ELSE response.url
                        t2 == IF e.hasWindow
                              THEN Append(t1, [ev |-> "navigate", href |-> location])
                              ELSE t1
                    IN Fail(r, l, t2, XFetchError(l.method, "Redirected", response,
                                                  Str(location)))
               ELSE StartParse(r, l, t1)

\* AfterRead without the catch of fetch.ts 257-259 around a failed read
AfterReadUncaught(r, l, tr, result) ==
    IF result.threw THEN Unwind(l, tr, result.exc) ELSE Return(l, tr, result.val)

UNNAMED == <<"u", "n", "n", "a", "m", "e", "d">>

\* fetch.ts 229-259, once the body read has settled: result is Ok(value) or
\* Throw(exception)
AfterRead(r, l, tr, result) ==
    LET ParseFail(exc) ==
            Fail(r, l, tr, XFetchError(l.method, "Failed to parse response", l.response, exc))
    IN IF result.threw THEN ParseFail(result.exc)
       ELSE CASE l.read.then = "file" ->
                    LET name == contentDispositionToFileName(
                                    HeadersGet(l.response.headers, <<"C", "o", "n", "t", "e", "n", "t", "-", "D", "i", "s", "p", "o", "s", "i", "t", "i", "o", "n">>))
                    IN IF name.threw THEN ParseFail(name.exc)
                       ELSE Return(l, tr,
                                [t |-> "File", blob |-> result.val,
                                 name |-> IF Truthy(name.val) THEN name.val.s ELSE UNNAMED,
                                 type |-> result.val.type])
              [] l.read.then = "parse" ->
                    LET data == JSONparse(result.val.s, r.jsonReviver)
                    IN IF data.threw THEN ParseFail(data.exc) ELSE Return(l, tr, data.val)
              [] OTHER -> Return(l, tr, result.val)

----------------------------------------------------------------------------
(* The calls and hosts the pipeline is run on.  A call varies one group of *)
(* options around DefaultRequest; the error hook varies in every group.    *)

ID == <<"i", "d">>
NAME == <<"n">>

AbsoluteUrl == <<"h", "t", "t", "p", "s", ":", "/", "/", "h", ".", "i", "o", "/", "a">>

DefaultRequest ==
    [urlLike |-> <<"/", "a">>, method |-> Undef, baseUrl |-> <<>>, pathPrefix |-> <<>>,
     pathVariables |-> Undef, formatPathVariables |-> NoFormat,
     queryParams |-> NoQuery, formatQueryParams |-> NoFormat,
     headers |-> <<>>, onError |-> "none", body |-> Undef, csrf |-> Undef,
     forceFollowRedirects |-> FALSE, opaqueOk |-> FALSE,
     responseResolution |-> "undefined", jsonReviver |-> "none"]

Browser == [hasDocument |-> TRUE, hasWindow |-> TRUE, cookie |-> <<"s", "i", "d", "=", "1", ";", " ", "c", "s", "r", "f", "=", "t", "=", "1">>]
BrowserNoCookie == [hasDocument |-> TRUE, hasWindow |-> TRUE, cookie |-> <<>>]
Server == [hasDocument |-> FALSE, hasWindow |-> FALSE, cookie |-> <<>>]

Hooks == {"none", "returns", "throws"}

Methods == {Undef, Str(<<"p", "a", "t", "c", "h">>), Str(<<"P", "O", "S", "T">>)}

CallerHeaders ==
    {<<>>,
     <<[name |-> CONTENT_TYPE, value |-> <<"t", "e", "x", "t", "/", "c", "s", "v">>]>>,
     <<[name |-> <<"X", "-", "T", "r", "a", "c", "e">>, value |-> <<"1">>]>>,
     <<[name |-> X_CSRF_TOKEN, value |-> <<"o", "w", "n">>]>>,
     <<[name |-> <<"B", "a", "d", " ", "N", "a", "m", "e">>, value |-> <<"1">>]>>}

PlainObject(props) == [t |-> "object", props |-> props, cyclic |-> FALSE]

Bodies ==
    {Undef,
     [t |-> "FormData"], [t |-> "Blob", type |-> <<"i", "m", "a", "g", "e", "/", "p", "n", "g">>],
     [t |-> "File", type |-> <<"t", "e", "x", "t", "/", "c", "s", "v">>], [t |-> "URLSearchParams"],
     Str(<<"h", "e", "l", "l", "o">>), Str(<<>>),
     PlainObject(<<[k |-> <<"n", "a", "m", "e">>, v |-> <<"a">>]>>),
     [t |-> "object", props |-> <<>>, cyclic |-> TRUE],
     Fn(<<"f">>), Null}

CsrfConfigs ==
    {Undef,
     [token |-> <<"t", "o", "k">>, fromCookie |-> <<>>, headerName |-> <<>>, defaultMatcher |-> FALSE],
     [token |-> <<>>, fromCookie |-> <<"c", "s", "r", "f">>, headerName |-> <<>>, defaultMatcher |-> TRUE],
     [token |-> <<>>, fromCookie |-> <<"c", "s", "r", "f">>, headerName |-> <<"X", "-", "X", "S", "R", "F">>, defaultMatcher |-> FALSE],
     [token |-> <<>>, fromCookie |-> <<>>, headerName |-> <<>>, defaultMatcher |-> TRUE],
     [token |-> <<"t", "o", "k">>, fromCookie |-> <<>>, headerName |-> <<"B", "a", "d", " ", "N", "a", "m", "e">>, defaultMatcher |-> TRUE]}

UrlConfigs ==
    {DefaultRequest,
     [DefaultRequest EXCEPT !.urlLike = AbsoluteUrl],
     [DefaultRequest EXCEPT !.urlLike = <<"/", "u", "s", "e", "r", "s", "/", ":", "i", "d">>, !.baseUrl = <<"h", "t", "t", "p", "s", ":", "/", "/", "h", ".", "i", "o", "/">>,
        !.pathVariables = [t |-> "object", own |-> (ID :> Str(<<"4", "2">>))],
        !.queryParams = [t |-> "map", entries |-> <<[key |-> <<"a", "c", "t", "i", "v", "e">>, value |-> Str(<<"t", "r", "u", "e">>)]>>]],
     [DefaultRequest EXCEPT !.urlLike = <<"/", "u", "s", "e", "r", "s", "/", ":", "i", "d">>,
        !.pathVariables = [t |-> "object", own |-> (ID :> Str(<<"4", "2">>))],
        !.formatPathVariables = "throws"],
     [DefaultRequest EXCEPT !.urlLike = <<"/", "u", "s", "e", "r", "s", "/", ":", "i", "d">>,
        !.pathVariables = [t |-> "object", own |-> (ID :> Str(<<LoneSurrogate>>))]],
     [DefaultRequest EXCEPT
        !.queryParams = [t |-> "map", entries |-> <<[key |-> <<"q">>, value |-> Str(<<"x">>)]>>],
        !.formatQueryParams = "throws"],
     [DefaultRequest EXCEPT
        !.queryParams = [t |-> "URLSearchParams", entries |-> <<[k |-> <<"q">>, v |-> <<"x", " ", "y">>]>>]]}

UrlCalls == {[req |-> r, env |-> Browser] : r \in UrlConfigs}

BodyCalls ==
    {[req |-> [DefaultRequest EXCEPT !.method = m, !.headers = h, !.body = b],
      env |-> Browser] :
        m \in {Undef, Str(<<"P", "O", "S", "T">>)}, h \in CallerHeaders, b \in Bodies}

CsrfCalls ==
    {[req |-> [DefaultRequest EXCEPT !.method = m, !.headers = h, !.csrf = c], env |-> e] :
        m \in Methods, h \in {<<>>, <<[name |-> X_CSRF_TOKEN, value |-> <<"o", "w", "n">>]>>},
        c \in CsrfConfigs, e \in {Browser, BrowserNoCookie, Server}}

Resolutions == {"undefined", "auto", "raw", "void", "response", "blob", "file"}

ResponseCalls ==
    {[req |-> [DefaultRequest EXCEPT !.method = Str(<<"p", "o", "s", "t">>),
                    !.forceFollowRedirects = f, !.opaqueOk = o,
                    !.responseResolution = m, !.jsonReviver = j],
      env |-> e] :
        f \in BOOLEAN, o \in BOOLEAN, m \in Resolutions,
        j \in {"none", "dates", "throws"}, e \in {Browser, Server}}

Calls ==
    {[c EXCEPT !.req.onError = hook] :
        c \in UrlCalls \cup BodyCalls \cup CsrfCalls \cup ResponseCalls, hook \in Hooks}

(* What the transport can answer *)
OkResponse ==
    [ok |-> TRUE, status |-> 200, type |-> "basic", redirected |-> FALSE,
     url |-> AbsoluteUrl, headers |-> <<>>]

WithHeader(response, name, value) ==
    [response EXCEPT !.headers = HeadersSet(@, name, value).val]

ResponseContentTypes ==
    {<<>>, <<"a", "p", "p", "l", "i", "c", "a", "t", "i", "o", "n", "/", "j", "s", "o", "n">>, <<"a", "p", "p", "l", "i", "c", "a", "t", "i", "o", "n", "/", "j", "s", "o", "n", ";", " ", "c", "h", "a", "r", "s", "e", "t", "=", "u", "t", "f", "-", "8">>,
     <<"a", "p", "p", "l", "i", "c", "a", "t", "i", "o", "n", "/", "o", "c", "t", "e", "t", "-", "s", "t", "r", "e", "a", "m">>, <<"t", "e", "x", "t", "/", "p", "l", "a", "i", "n">>, <<"t", "e", "x", "t", "/", "h", "t", "m", "l">>}

Dispositions ==
    {<<"a", "t", "t", "a", "c", "h", "m", "e", "n", "t", ";", " ", "f", "i", "l", "e", "n", "a", "m", "e", "=">> \o <<"\"">> \o <<"r", "%", "2", "0", "a", ".", "t", "x", "t">> \o <<"\"">>,
     <<"i", "n", "l", "i", "n", "e">>, <<"a", "t", "t", "a", "c", "h", "m", "e", "n", "t", ";", " ", "f", "i", "l", "e", "n", "a", "m", "e", "=", "%", "E", "0", ".", "t", "x", "t">>}

Responses ==
    {OkResponse}
    \cup {WithHeader(OkResponse, <<"c", "o", "n", "t", "e", "n", "t", "-", "t", "y", "p", "e">>, ct) : ct \in ResponseContentTypes}
    \cup {WithHeader(OkResponse, <<"c", "o", "n", "t", "e", "n", "t", "-", "d", "i", "s", "p", "o", "s", "i", "t", "i", "o", "n">>, d) : d \in Dispositions}
    \cup {[OkResponse EXCEPT !.redirected = TRUE],
          WithHeader([OkResponse EXCEPT !.redirected = TRUE], <<"l", "o", "c", "a", "t", "i", "o", "n">>, <<"/", "l", "o", "g", "i", "n">>),
          [OkResponse EXCEPT !.ok = FALSE, !.status = 403],
          [OkResponse EXCEPT !.ok = FALSE, !.status = 0, !.type = "opaque", !.url = <<>>],
          WithHeader([OkResponse EXCEPT !.ok = FALSE, !.status = 403, !.redirected = TRUE],
                     <<"l", "o", "c", "a", "t", "i", "o", "n">>, <<"/", "l", "o", "g", "i", "n">>)}

NetworkErrors == {[type |-> "TypeError", from |-> "fetch"], [type |-> "AbortError"]}

BodyReadError == [type |-> "TypeError", from |-> "body"]

\* what a body read can settle to
ReadResults(response, op) ==
    CASE op = "blob" ->
            {Ok([t |-> "Blob",
                 type |-> IF HeadersGet(response.headers, <<"c", "o", "n", "t", "e", "n", "t", "-", "t", "y", "p", "e">>) = Null THEN <<>>
                          ELSE HeadersGet(response.headers, <<"c", "o", "n", "t", "e", "n", "t", "-", "t", "y", "p", "e">>).s]),
             Throw(BodyReadError)}
      [] op = "json" -> {Ok([t |-> "parsed", text |-> <<"{", "}">>, revived |-> FALSE]),
                         Throw(SyntaxError)}
      [] OTHER -> {Ok(Str(<<"{", "}">>)), Ok(Str(<<"<", "h", "t", "m", "l", ">">>)), Throw(BodyReadError)}

----------------------------------------------------------------------------
(* The pipeline as a state machine *)


\* the object the local headers refers to, when it is the caller's own
HeadersObjectShared(init) == "caller"

\* the object the local headers refers to: new Headers(init) makes a fresh
\* one (fetch.ts 108)
HeadersObject(init) == "fresh"

\* the object params of createUrl refers to: queryParams hands back the
\* caller's URLSearchParams itself, and fills a fresh one from a plain
\* mapping (system.ts 48-52)
ParamsObject(qp) == IF qp.t = "URLSearchParams" THEN "caller" ELSE "fresh"

\* the headers of h named in names as [name, value] pairs
RECURSIVE PairsOf(_, _)
PairsOf(h, names) ==
    IF names = {} THEN <<>>
    ELSE LET n == CHOOSE x \in names : TRUE
         IN <<[name |-> n, value |-> h[n]]>> \o PairsOf(h, names \ {n})

\* what the caller's objects hold after a stretch of the call: an object a
\* local shares with the caller shows the caller what was set on the local
CallerObjects(r, next) ==
    LET l == next.loc
        did(kind) == \E i \in 1..Len(next.trace) : next.trace[i].ev = kind
        made == NewHeaders(r.headers)
        written == IF ~did("headers") THEN {}
                   ELSE {n \in DOMAIN l.headers :
                            n \notin DOMAIN made.val \/ made.val[n] # l.headers[n]}
        kept == SelectSeq(r.headers, LAMBDA h : toLowerCase(h.name) \notin written)
        params == queryParams(r.queryParams, r.formatQueryParams)
    IN [r EXCEPT
          !.headers = IF HeadersObject(r.headers) = "caller" /\ written # {}
                      THEN kept \o PairsOf(l.headers, written) ELSE @,
          !.queryParams = IF ParamsObject(r.queryParams) = "caller" /\ did("createUrl")
                          THEN [@ EXCEPT !.entries = params.val] ELSE @]


\* no second call
NoCall == [t |-> "none"]

\* the page the calls are made from
PAGE == <<"h", "t", "t", "p", "s", ":", "/", "/", "h", ".", "i", "o", "/", "a", "p", "p">>

\* window.location.href after a stretch of call who that took the trace from
\* old to new: fetch.ts 212 writes it where the stretch navigated
Navigated(h, who, old, new) ==
    LET added == SelectSeq(SubSeq(new, Len(old) + 1, Len(new)),
                           LAMBDA x : x.ev = "navigate")
    IN IF added = <<>> THEN h
       ELSE [value |-> added[Len(added)].href, writtenBy |-> h.writtenBy \cup {who}]

Become(next) ==
    /\ pc' = next.pc
    /\ loc' = next.loc
    /\ trace' = next.trace
    /\ outcome' = next.outcome
    /\ req' = CallerObjects(req, next)
    /\ href' = Navigated(href, 1, trace, next.trace)
    /\ UNCHANGED <<env, input, output, other>>

Init ==
    /\ \E c \in Calls : req = c.req /\ env = c.env
    /\ pc = "init"
    /\ loc = EmptyLoc
    /\ trace = <<>>
    /\ outcome = Pending
    /\ input = [t |-> "none"]
    /\ output = NotRun
    /\ other = NoCall
    /\ href = [value |-> PAGE, writtenBy |-> {}]

\* xfetch(urlLike, requestInit) is called and runs to its first await
Call == pc = "init" /\ Become(Prepare(req, env))

\* the transport answers
FetchResolve ==
    /\ pc = "fetching"
    /\ \E response \in Responses : Become(AfterResponse(req, env, loc, trace, response))


\* FetchReject calling the transport a second time after its first failure
FetchRejectRetrying ==
    /\ pc = "fetching"
    /\ \E err \in NetworkErrors :
        IF Cardinality({i \in 1..Len(trace) : trace[i].ev = "fetch"}) < 2
        THEN Become([pc |-> "fetching", loc |-> loc,
                     trace |-> Append(trace, FetchCall(req, loc)), outcome |-> Pending])
        ELSE Become(Fail(req, loc, trace, XFetchError(loc.method, "Fetch failed", Null, err)))

\* the transport fails: fetch.ts 190-192
FetchReject ==
    /\ pc = "fetching"
    /\ \E err \in NetworkErrors :
        Become(Fail(req, loc, trace, XFetchError(loc.method, "Fetch failed", Null, err)))

\* the awaited body read settles
ReadSettle ==
    /\ pc = "reading"
    /\ \E result \in ReadResults(loc.response, loc.read.op) :
        Become(AfterRead(req, loc, trace, result))

Next == Call \/ FetchResolve \/ FetchReject \/ ReadSettle

Spec == Init /\ [][Next]_vars

----------------------------------------------------------------------------
(* The URL builder on its own: Init draws the arguments, the action calls  *)
(* the function.  The pipeline's variables stay idle.                      *)

PipeIdle ==
    /\ req = [t |-> "none"]
    /\ env = [t |-> "none"]
    /\ pc = "idle"
    /\ loc = [t |-> "none"]
    /\ trace = <<>>
    /\ outcome = Pending
    /\ other = NoCall
    /\ href = [value |-> <<>>, writtenBy |-> {}]

(* createUrl over base URL, path prefix and path *)
\* strings over A without an empty segment ("//")
Segmented(A, n) ==
    {s \in StrsUpTo(A, n) : \A i \in 1..(Len(s) - 1) : ~(s[i] = "/" /\ s[i + 1] = "/")}

UrlInputs ==
    [baseUrl : Segmented({"h", "/"}, MaxSegLen),
     pathPrefix : Segmented({"a", "/"}, MaxSegLen),
     path : Segmented({"b", "/"}, MaxSegLen)]

UrlInit == PipeIdle /\ input \in UrlInputs /\ output = NotRun

BuildUrl ==
    /\ output = NotRun
    /\ output' = createUrl(input.path,
                   [PlainUrlInit EXCEPT !.baseUrl = input.baseUrl,
                                        !.pathPrefix = input.pathPrefix])
    /\ UNCHANGED <<input, pipeVars>>

UrlNext == BuildUrl

SpecUrl == UrlInit /\ [][UrlNext]_vars

(* queryParams over a mapping and an optional formatter *)
QueryKeys == {<<"a">>, <<"b">>}
QueryItems == {Str(<<"x">>), Str(<<"y">>)}
QueryValues ==
    {Undef, Str(<<"x">>)} \cup {Arr(items) : items \in StrsUpTo(QueryItems, MaxArr)}

\* the entry lists of an object literal: distinct keys, in insertion order
QueryMappings ==
    {es \in UNION {[1..n -> [key : QueryKeys, value : QueryValues]] : n \in 0..MaxKeys} :
        \A i, j \in 1..Len(es) : i # j => es[i].key # es[j].key}

QueryInit ==
    /\ PipeIdle
    /\ input \in [entries : QueryMappings, format : {NoFormat} \cup Formatters]
    /\ output = NotRun

BuildQuery ==
    /\ output = NotRun
    /\ output' = queryParams([t |-> "map", entries |-> input.entries], input.format)
    /\ UNCHANGED <<input, pipeVars>>

QueryNext == BuildQuery

SpecQuery == QueryInit /\ [][QueryNext]_vars

(* createUrl over a path template and a path-variable map.  A template is  *)
(* a list of pieces, each "/text" or "/:name".                             *)
TemplatePieces ==
    {<<"/", "u">>, <<"/", ":">> \o ID, <<"/", ":">> \o NAME, <<"/", ":">> \o CONSTRUCTOR}
PathValues == {Undef, Str(<<"4", "2">>), Str(<<"a", "/", "b">>), Str(<<>>)}
PathVariableMaps ==
    {Undef} \cup
    {[t |-> "object", own |-> f] : f \in UNION {[D -> PathValues] : D \in SUBSET {ID, NAME}}}

PathInit ==
    /\ PipeIdle
    /\ input \in [pieces : UNION {[1..n -> TemplatePieces] : n \in 1..2},
                  pathVariables : PathVariableMaps,
                  format : {NoFormat, "identity", "tagged"}]
    /\ output = NotRun

BuildPath ==
    /\ output = NotRun
    /\ output' = createUrl(Concat(input.pieces),
                   [PlainUrlInit EXCEPT !.pathVariables = input.pathVariables,
                                        !.formatPathVariables = input.format])
    /\ UNCHANGED <<input, pipeVars>>

PathNext == BuildPath

SpecPath == PathInit /\ [][PathNext]_vars

----------------------------------------------------------------------------
(* Claims about the URL builder *)

\* the maximal runs of characters other than "/" in s
Segments(s) ==
    {SubSeq(s, i, j) : i \in 1..Len(s), j \in 1..Len(s)} \cap
    {seg \in StrsUpTo({"a", "b", "h"}, Len(s)) :
        /\ seg # <<>>
        /\ \E i \in 1..Len(s) :
            /\ i + Len(seg) - 1 <= Len(s)
            /\ SubSeq(s, i, i + Len(seg) - 1) = seg
            /\ (i = 1 \/ s[i - 1] = "/")
            /\ (i + Len(seg) > Len(s) \/ s[i + Len(seg)] = "/")}

DoubleSlashAt(s, i) == i >= 1 /\ i < Len(s) /\ s[i] = "/" /\ s[i + 1] = "/"

\* C4: for every base URL, path prefix and path, the URL createUrl produces has
\* no double slash at the base/prefix join or the prefix/path join, every
\* non-empty segment of prefix and path appears in it, and each normalized
\* non-empty segment starts with "/" and does not end with "/".
C4_NoDoubleSlashNoDrop ==
    (output # NotRun) =>
        LET b == IF input.baseUrl # <<>> THEN normalizeUrl(input.baseUrl) ELSE <<>>
            p == IF input.pathPrefix # <<>> THEN normalizePath(input.pathPrefix) ELSE <<>>
            q == normalizePath(input.path)
        IN /\ ~output.threw
           /\ ~DoubleSlashAt(output.val, Len(b))
           /\ ~DoubleSlashAt(output.val, Len(b) + Len(p))
           /\ \A seg \in Segments(input.pathPrefix) \cup Segments(input.path) :
                Contains(output.val, seg)
           /\ \A n \in {p, q} : n # <<>> => (Head(n) = "/" /\ n[Len(n)] # "/")

\* C6: for every query-parameter mapping, with or without a formatter, a key
\* whose value is undefined has no entry in the query, and a key whose value is
\* a sequence of length N has exactly N entries, in the order supplied.
C6_QueryEntries ==
    (output # NotRun /\ ~output.threw) =>
        \A i \in 1..Len(input.entries) :
            LET e == input.entries[i]
                got == SelectSeq(output.val, LAMBDA kv : kv.k = e.key)
            IN /\ (e.value = Undef) => (got = <<>>)
               /\ (e.value.t = "array") =>
                    ([j \in 1..Len(got) |-> got[j].v]
                        = [j \in 1..Len(e.value.items) |-> e.value.items[j].s])

\* what the claim says a template piece becomes
ExpectedPiece(piece, pathVariables, format) ==
    LET name == SubSeq(piece, 3, Len(piece))
        supplied == /\ Len(piece) > 2 /\ piece[2] = ":"
                    /\ pathVariables # Undef
                    /\ name \in DOMAIN pathVariables.own
                    /\ pathVariables.own[name] # Undef
    IN IF supplied
       THEN <<"/">> \o (IF format = NoFormat
                        THEN encodeURIComponent(ToStr(pathVariables.own[name])).val
                        ELSE ToStr(ApplyFormat(format, name, pathVariables.own[name]).val))
       ELSE piece

\* C7: every :name whose name has a supplied value is replaced by that value
\* (percent-encoded, or as the formatter returns it), and every :name whose name
\* is missing from the map or mapped to undefined stays in the output as the
\* literal placeholder, without an error.
C7_PathVariables ==
    (output # NotRun) =>
        /\ ~output.threw
        /\ output.val = Concat([i \in 1..Len(input.pieces) |->
                            ExpectedPiece(input.pieces[i], input.pathVariables, input.format)])

----------------------------------------------------------------------------
(* Claims about the pipeline *)

EventsOf(kind) == SelectSeq(trace, LAMBDA x : x.ev = kind)

Happened(kind) == \E i \in 1..Len(trace) : trace[i].ev = kind

\* the value of the Content-Type header the caller passed, Null when none
CallerContentType ==
    LET own == SelectSeq(req.headers, LAMBDA h : toLowerCase(h.name) = <<"c", "o", "n", "t", "e", "n", "t", "-", "t", "y", "p", "e">>)
    IN IF own = <<>> THEN Null ELSE Str(own[1].value)

\* C1: a call that fails at a failure point of the pipeline constructs the
\* structured error once, passes it to the onError hook (when there is one)
\* exactly once, and then throws: nothing follows the hook but the throw, and
\* the call returns no value, whatever the hook does.
C1_FailureReportedOnceThenThrown ==
    \A i \in 1..Len(trace) :
        (trace[i].ev = "construct") =>
            /\ Len(EventsOf("construct")) = 1
            /\ trace[i].error.type = "XFetchError"
            /\ pc = "done"
            /\ outcome.kind = "thrown"
            /\ ~Happened("return")
            /\ trace[Len(trace)].ev = "throw"
            /\ IF req.onError = "none"
               THEN /\ ~Happened("onError")
                    /\ Len(trace) = i + 1
                    /\ outcome.exc = trace[i].error
               ELSE /\ Len(EventsOf("onError")) = 1
                    /\ trace[i + 1] = [ev |-> "onError", error |-> trace[i].error]
                    /\ Len(trace) = i + 2
                    /\ (req.onError = "returns" => outcome.exc = trace[i].error)

\* C1 witness: a forced redirect was navigated, reported to a hook that
\* itself throws, and the call ended by throwing
C1_Witness ==
    /\ pc = "done"
    /\ req.onError = "throws"
    /\ Happened("navigate")
    /\ Happened("onError")
    /\ outcome.kind = "thrown"

\* C2 as claimed: whatever step raises, what escapes the call is a structured
\* XFetchError that was first passed to the onError hook (calls whose hook
\* itself throws are left aside).
C2_OnlyStructuredErrorsEscape ==
    (outcome.kind = "thrown" /\ req.onError # "throws") =>
        /\ outcome.exc.type = "XFetchError"
        /\ (req.onError # "none") =>
                (\E i \in 1..Len(trace) : trace[i] = [ev |-> "onError", error |-> outcome.exc])

PipelineMessages ==
    {"Failed to serialize body", "Fetch failed", "Response not ok", "Redirected",
     "Failed to parse response"}

\* exceptions of the steps no try block encloses
UnwrappedExceptions == {FormatterError, URIError, HeaderTypeError, ReferenceError}

\* C2 amended: an exception raised by body serialization, by dispatch or by a
\* parse step escapes as an XFetchError that was first passed to the hook (a
\* hook that throws replaces it by its own exception); an exception raised
\* while building the URL, constructing the header set, reading the CSRF
\* cookie or setting the CSRF header escapes as raised, before any dispatch,
\* and the hook is not invoked.
C2_WrappedOnlyInsideTryBlocks ==
    (outcome.kind = "thrown") =>
        \/ /\ outcome.exc \in UnwrappedExceptions
           /\ ~Happened("construct")
           /\ ~Happened("onError")
           /\ ~Happened("fetch")
        \/ /\ req.onError # "throws"
           /\ outcome.exc.type = "XFetchError"
           /\ outcome.exc.message \in PipelineMessages
           /\ EventsOf("construct") = <<[ev |-> "construct", error |-> outcome.exc]>>
           /\ (req.onError = "returns") =>
                (EventsOf("onError") = <<[ev |-> "onError", error |-> outcome.exc]>>)
        \/ /\ req.onError = "throws"
           /\ outcome.exc = HookError
           /\ Len(EventsOf("onError")) = 1
           /\ EventsOf("onError")[1].error.type = "XFetchError"
           /\ EventsOf("onError")[1].error.message \in PipelineMessages

\* C2 witness: with a hook configured, the CSRF cookie lookup raised where no
\* document exists and the exception escaped as raised
C2_Witness ==
    /\ outcome.kind = "thrown"
    /\ outcome.exc = ReferenceError
    /\ req.onError = "returns"
    /\ req.csrf # Undef

\* C3: the method the transport is invoked with is the configured method in
\* upper case, or GET when none is configured (an absent method, which the
\* transport itself takes as GET, counts as GET).
C3_TransportGetsNormalizedMethod ==
    \A i \in 1..Len(trace) :
        (trace[i].ev = "fetch") =>
            \/ trace[i].method = Str(Method(req))
            \/ (req.method = Undef /\ trace[i].method = Undef)

\* C5: when urlLike is an absolute URL and no base URL, path prefix, path
\* variables or query parameters are configured, the transport is handed that
\* URL.
C5_AbsoluteUrlPassedThrough ==
    \A i \in 1..Len(trace) :
        (/\ trace[i].ev = "fetch"
         /\ req.urlLike = AbsoluteUrl
         /\ req.baseUrl = <<>> /\ req.pathPrefix = <<>>
         /\ req.pathVariables = Undef /\ req.queryParams = NoQuery) =>
            trace[i].url = req.urlLike

\* C8: when the caller's headers hold Content-Type and a body is supplied, the
\* transport gets the caller's body value itself and the caller's
\* Content-Type, and the call never fails with a serialization error.
C8_CallerContentTypeKeepsBody ==
    (CallerContentType # Null /\ req.body # Undef) =>
        \A i \in 1..Len(trace) :
            /\ (trace[i].ev = "fetch") =>
                    /\ trace[i].body = req.body
                    /\ HeadersGet(trace[i].headers, CONTENT_TYPE) = CallerContentType
            /\ (trace[i].ev = "construct") =>
                    trace[i].error.message # "Failed to serialize body"

\* C8 witness: a self-referring object went out as it is under the caller's
\* text/csv
C8_Witness ==
    /\ Happened("fetch")
    /\ req.body.t = "object" /\ req.body.cyclic
    /\ CallerContentType = Str(<<"t", "e", "x", "t", "/", "c", "s", "v">>)

\* the content type and the payload the claim assigns to a body
C9_ContentType(body) ==
    CASE body.t = "FormData" -> Null
      [] body.t \in {"Blob", "File"} -> Str(<<"a", "p", "p", "l", "i", "c", "a", "t", "i", "o", "n", "/", "o", "c", "t", "e", "t", "-", "s", "t", "r", "e", "a", "m">>)
      [] body.t = "URLSearchParams" -> Str(<<"a", "p", "p", "l", "i", "c", "a", "t", "i", "o", "n", "/", "x", "-", "w", "w", "w", "-", "f", "o", "r", "m", "-", "u", "r", "l", "e", "n", "c", "o", "d", "e", "d">>)
      [] body.t = "string" -> Str(<<"t", "e", "x", "t", "/", "p", "l", "a", "i", "n">>)
      [] OTHER -> Str(<<"a", "p", "p", "l", "i", "c", "a", "t", "i", "o", "n", "/", "j", "s", "o", "n">>)

C9_Payload(body) ==
    IF body.t \in {"FormData", "Blob", "File", "URLSearchParams", "string"} THEN body
    ELSE JSONstringify(body).val

BodyCodecRan == Happened("headers")

\* C9 as claimed: with a body and no caller Content-Type, the body codec
\* always yields exactly one pair: form data, blob, URL-encoded params and
\* string as they are with their content type, anything else as
\* application/json with the JSON text of the body.
C9_ExactlyOnePairResults ==
    (BodyCodecRan /\ req.body # Undef /\ CallerContentType = Null) =>
        /\ loc.contentType = C9_ContentType(req.body)
        /\ loc.body = C9_Payload(req.body)

\* C9 amended: the same classification, except that for anything else JSON
\* serialization is attempted: when it returns, the pair is application/json
\* with its result (the JSON text, or undefined for a value JSON cannot
\* represent, such as a function); when it throws, no pair results and the
\* call fails with a serialization error before any dispatch.
C9_PairOrSerializationError ==
    (BodyCodecRan /\ req.body # Undef /\ CallerContentType = Null) =>
        IF req.body.t = "object" /\ req.body.cyclic
        THEN /\ loc.contentType = Unset /\ loc.body = Unset
             /\ ~Happened("fetch")
             /\ EventsOf("construct") =
                    <<[ev |-> "construct",
                       error |-> XFetchError(Method(req), "Failed to serialize body", Null,
                                             JsonTypeError)]>>
             /\ outcome.kind = "thrown"
        ELSE /\ loc.contentType = C9_ContentType(req.body)
             /\ loc.body = C9_Payload(req.body)
             /\ (req.body.t \notin {"function"} /\ C9_ContentType(req.body) = Str(<<"a", "p", "p", "l", "i", "c", "a", "t", "i", "o", "n", "/", "j", "s", "o", "n">>))
                    => (loc.body.t = "string")
             /\ (req.body.t = "function") => (loc.body = Undef)

\* C9 witness: the object {name: "a"} went out as application/json with the
\* text {"name":"a"}
C9_Witness ==
    /\ req.body = PlainObject(<<[k |-> <<"n", "a", "m", "e">>, v |-> <<"a">>]>>)
    /\ \E i \in 1..Len(trace) :
        /\ trace[i].ev = "fetch"
        /\ trace[i].body = Str(<<"{">> \o <<"\"">> \o <<"n", "a", "m", "e">> \o <<"\"", ":", "\"">> \o <<"a">> \o <<"\"">> \o <<"}">>)
        /\ HeadersGet(trace[i].headers, CONTENT_TYPE) = Str(<<"a", "p", "p", "l", "i", "c", "a", "t", "i", "o", "n", "/", "j", "s", "o", "n">>)

\* C10 as claimed: with no body, the request handed to the transport carries
\* no payload and no Content-Type, whatever headers the caller passed.
C10_NoBodyNoContentType ==
    \A i \in 1..Len(trace) :
        (trace[i].ev = "fetch" /\ req.body = Undef) =>
            /\ trace[i].body = Undef
            /\ HeadersGet(trace[i].headers, CONTENT_TYPE) = Null

\* C10 amended: with no body, the request carries no payload and the pipeline
\* adds no Content-Type of its own: the outgoing Content-Type is the caller's
\* own Content-Type header when the caller passed one, and absent otherwise.
C10_NoBodyNoAddedContentType ==
    \A i \in 1..Len(trace) :
        (trace[i].ev = "fetch" /\ req.body = Undef) =>
            /\ trace[i].body = Undef
            /\ HeadersGet(trace[i].headers, CONTENT_TYPE) = CallerContentType

\* C10 witness: a call without a body went out under the caller's text/csv
C10_Witness ==
    /\ Happened("fetch")
    /\ req.body = Undef
    /\ CallerContentType = Str(<<"t", "e", "x", "t", "/", "c", "s", "v">>)

----------------------------------------------------------------------------
(* CSRF injection *)

\* a header set without the named headers
HeadersWithout(h, names) ==
    [n \in DOMAIN h \ {toLowerCase(x) : x \in names} |-> h[n]]

\* the header the CSRF configuration of the call names
CsrfHeaderName ==
    IF req.csrf.headerName # <<>> THEN req.csrf.headerName ELSE X_CSRF_TOKEN

\* the call has a CSRF configuration and either no defaultMatcher or a method
\* (upper-cased, GET when none) among POST, PUT, DELETE, PATCH
CsrfFires ==
    /\ req.csrf # Undef
    /\ \/ ~req.csrf.defaultMatcher
       \/ toUpperCase(IF req.method = Undef THEN GET ELSE req.method.s)
            \in {<<"P", "O", "S", "T">>, <<"P", "U", "T">>, <<"D", "E", "L", "E", "T", "E">>, <<"P", "A", "T", "C", "H">>}

\* C11: a request that goes out carries a CSRF header put there by injection
\* exactly when the call has a CSRF configuration and either defaultMatcher is
\* not set or the method is POST, PUT, DELETE or PATCH; the header is named by
\* headerName, X-CSRF-TOKEN when none is configured; otherwise the outgoing
\* headers are the caller's (Content-Type aside).
C11_CsrfInjectedIffMatched ==
    \A i \in 1..Len(trace) :
        trace[i].ev = "fetch" =>
            LET out == trace[i].headers
                own == NewHeaders(req.headers).val
            IN IF CsrfFires
               THEN /\ HeadersGet(out, CsrfHeaderName) # Null
                    /\ HeadersWithout(out, {CONTENT_TYPE, CsrfHeaderName})
                         = HeadersWithout(own, {CONTENT_TYPE, CsrfHeaderName})
               ELSE HeadersWithout(out, {CONTENT_TYPE}) = HeadersWithout(own, {CONTENT_TYPE})

\* C11 witness: with defaultMatcher set, a "patch" call went out with an
\* X-CSRF-TOKEN header the caller did not pass
C11_Witness ==
    /\ Happened("fetch")
    /\ req.csrf # Undef /\ req.csrf.defaultMatcher
    /\ req.method = Str(<<"p", "a", "t", "c", "h">>)
    /\ req.headers = <<>>
    /\ HeadersGet(loc.headers, X_CSRF_TOKEN) # Null

\* the part of s after its first ch, empty when s has no ch
AfterFirst(s, ch) ==
    IF \E i \in 1..Len(s) : s[i] = ch
    THEN LET first == CHOOSE i \in 1..Len(s) : s[i] = ch /\ \A j \in 1..(i - 1) : s[j] # ch
         IN SubSeq(s, first + 1, Len(s))
    ELSE <<>>

\* the token the injection is to carry: the explicit token, else the text
\* after the first "=" of the first cookie whose trimmed text starts with the
\* configured cookie name, else the empty string
ExpectedCsrfToken ==
    IF req.csrf.token # <<>> THEN req.csrf.token
    ELSE IF req.csrf.fromCookie # <<>>
    THEN LET hits == SelectSeq(Split(env.cookie, ";"),
                               LAMBDA c : StartsWith(Trim(c), req.csrf.fromCookie))
         IN IF hits = <<>> THEN <<>> ELSE AfterFirst(hits[1], "=")
    ELSE <<>>

\* C12: when the injection fires, the header carries the explicit token if one
\* is configured; otherwise, if a cookie name is configured, the text after
\* the first "=" of the first cookie whose trimmed text starts with that name;
\* otherwise the empty string.
C12_InjectedTokenValue ==
    \A i \in 1..Len(trace) :
        (trace[i].ev = "fetch" /\ CsrfFires) =>
            HeadersGet(trace[i].headers, CsrfHeaderName) = Str(ExpectedCsrfToken)

----------------------------------------------------------------------------
(* Status and redirect checks *)

\* the call has got a response
Responded == loc.response # Unset

NotOkError == XFetchError(loc.method, "Response not ok", loc.response, Undef)

\* C13: a response that is not ok makes the call fail with a Response-Not-Ok
\* error carrying that response, unless opaqueOk is set and the response is
\* opaque: then the call resolves to undefined, the error hook is not invoked
\* and the body is not read.  opaqueOk with another response, and an opaque
\* response without opaqueOk, fail.
C13_NotOkFailsUnlessOpaqueOptIn ==
    (Responded /\ ~loc.response.ok) =>
        /\ pc = "done"
        /\ ~Happened("read")
        /\ IF req.opaqueOk /\ loc.response.type = "opaque"
           THEN /\ outcome = Returned(Undef)
                /\ ~Happened("construct")
                /\ ~Happened("onError")
           ELSE /\ EventsOf("construct") = <<[ev |-> "construct", error |-> NotOkError]>>
                /\ req.onError # "none" =>
                     EventsOf("onError") = <<[ev |-> "onError", error |-> NotOkError]>>
                /\ outcome = Thrown(IF req.onError = "throws" THEN HookError ELSE NotOkError)

\* C13 witness: with opaqueOk set, a 403 response that is not opaque made the
\* call throw an error whose response has status 403
C13_Witness ==
    /\ Responded
    /\ req.opaqueOk
    /\ outcome.kind = "thrown"
    /\ outcome.exc.type = "XFetchError"
    /\ outcome.exc.response # Null
    /\ outcome.exc.response.status = 403
    /\ outcome.exc.cause = Undef

\* an ok response reports a redirect and the call asked to force redirects
ForcedRedirect ==
    /\ Responded
    /\ loc.response.ok
    /\ loc.response.redirected
    /\ req.forceFollowRedirects

\* the Location header of the response, the response's own URL without one
RedirectLocation ==
    IF <<"l", "o", "c", "a", "t", "i", "o", "n">> \in DOMAIN loc.response.headers
    THEN loc.response.headers[<<"l", "o", "c", "a", "t", "i", "o", "n">>]
    ELSE loc.response.url

RedirectedError ==
    XFetchError(loc.method, "Redirected", loc.response, Str(RedirectLocation))

\* C14: with forceFollowRedirects set, an ok response that reports a redirect
\* never resolves to a value: the call fails with a Redirected error whose
\* cause is the Location header, or the response's own URL when the header is
\* absent.  The navigation write happens at most once in a call, with that
\* location, and only on this path.
C14_ForcedRedirectFailsAndNavigatesOnce ==
    /\ ForcedRedirect =>
        /\ pc = "done"
        /\ ~Happened("read")
        /\ EventsOf("construct") = <<[ev |-> "construct", error |-> RedirectedError]>>
        /\ outcome = Thrown(IF req.onError = "throws" THEN HookError ELSE RedirectedError)
    /\ Len(EventsOf("navigate")) <= 1
    /\ Happened("navigate") =>
        /\ ForcedRedirect
        /\ EventsOf("navigate")[1].href = RedirectLocation

\* C14 witness: a redirected response without a Location header made the
\* call navigate to the response's URL and throw the Redirected error
C14_Witness ==
    /\ ForcedRedirect
    /\ <<"l", "o", "c", "a", "t", "i", "o", "n">> \notin DOMAIN loc.response.headers
    /\ EventsOf("navigate") = <<[ev |-> "navigate", href |-> loc.response.url]>>
    /\ outcome = Thrown(RedirectedError)

----------------------------------------------------------------------------
(* Response resolution *)

\* both checks passed: the response is ok and not a forced redirect
ChecksPassed == Responded /\ loc.response.ok /\ ~ForcedRedirect

\* how the call is to resolve: by the named mode, and in the default (auto)
\* mode by what the response content-type holds
Decoding ==
    LET ct == IF <<"c", "o", "n", "t", "e", "n", "t", "-", "t", "y", "p", "e">> \in DOMAIN loc.response.headers
              THEN loc.response.headers[<<"c", "o", "n", "t", "e", "n", "t", "-", "t", "y", "p", "e">>] ELSE <<>>
    IN CASE req.responseResolution = "response" -> "response"
         [] req.responseResolution = "raw" -> "stream"
         [] req.responseResolution = "void" -> "void"
         [] req.responseResolution = "blob" -> "blob"
         [] req.responseResolution = "file" -> "file"
         [] OTHER ->
            IF ct = <<>> THEN "stream"
            ELSE IF Contains(ct, <<"a", "p", "p", "l", "i", "c", "a", "t", "i", "o", "n", "/", "j", "s", "o", "n">>) THEN "json"
            ELSE IF Contains(ct, <<"a", "p", "p", "l", "i", "c", "a", "t", "i", "o", "n", "/", "o", "c", "t", "e", "t", "-", "s", "t", "r", "e", "a", "m">>) THEN "blob"
            ELSE IF Contains(ct, <<"t", "e", "x", "t", "/", "p", "l", "a", "i", "n">>) THEN "text"
            ELSE "stream"

\* the one body read the call makes for a decoding
ReadFor(decoding) ==
    CASE decoding = "json" -> IF req.jsonReviver # "none" THEN "text" ELSE "json"
      [] decoding = "text" -> "text"
      [] OTHER -> "blob"

\* C15: in the default (auto) mode the response content-type selects the
\* outcome: absent, the unread stream; application/json, parsed JSON (read as
\* text and parsed with the reviver when one is configured, else parsed
\* directly); application/octet-stream, a blob; text/plain, text; any other,
\* the unread stream.  A named mode (response, raw, void, blob, file) decides
\* by itself, whatever the content-type.
C15_ResolutionSelectsDecoding ==
    ChecksPassed =>
        CASE Decoding = "response" ->
                pc = "done" /\ ~Happened("read") /\ outcome = Returned(loc.response)
          [] Decoding = "stream" ->
                /\ pc = "done" /\ ~Happened("read")
                /\ outcome = Returned(ResponseBody(loc.response))
          [] Decoding = "void" ->
                pc = "done" /\ ~Happened("read") /\ outcome = Returned(Undef)
          [] OTHER ->
                /\ EventsOf("read") = <<[ev |-> "read", op |-> ReadFor(Decoding)]>>
                /\ outcome.kind = "returned" =>
                     CASE Decoding = "json" ->
                            /\ outcome.value.t = "parsed"
                            /\ outcome.value.revived = (req.jsonReviver # "none")
                       [] Decoding = "blob" -> outcome.value.t = "Blob"
                       [] Decoding = "text" -> outcome.value.t = "string"
                       [] OTHER -> outcome.value.t = "File"

\* C15 witness: in the default mode an application/octet-stream response
\* resolved to a blob
C15_Witness ==
    /\ ChecksPassed
    /\ req.responseResolution \in {"undefined", "auto"}
    /\ HeadersGet(loc.response.headers, CONTENT_TYPE) = Str(<<"a", "p", "p", "l", "i", "c", "a", "t", "i", "o", "n", "/", "o", "c", "t", "e", "t", "-", "s", "t", "r", "e", "a", "m">>)
    /\ outcome.kind = "returned"
    /\ outcome.value.t = "Blob"

\* the blob read of the call settled with a blob
BlobWasRead ==
    /\ pc = "done"
    /\ EventsOf("read") = <<[ev |-> "read", op |-> "blob"]>>
    /\ \A i \in 1..Len(trace) :
        trace[i].ev = "construct" => trace[i].error.cause # BodyReadError

\* the name the file is to get: the decoded filename of Content-Disposition,
\* "unnamed" when there is no header, no filename in it, or no decoding of it
ExpectedFileName ==
    LET name == contentDispositionToFileName(
                    HeadersGet(loc.response.headers, <<"C", "o", "n", "t", "e", "n", "t", "-", "D", "i", "s", "p", "o", "s", "i", "t", "i", "o", "n">>))
    IN IF name.threw THEN UNNAMED
       ELSE IF name.val = Null \/ name.val.s = <<>> THEN UNNAMED
       ELSE name.val.s

\* C16: in file mode, whenever the blob is read the call resolves to a file
\* whose name is the URL-decoded filename of the Content-Disposition header,
\* and "unnamed" when the header is absent or its filename cannot be parsed or
\* URL-decoded.
C16_FileNameOrUnnamed ==
    (ChecksPassed /\ req.responseResolution = "file" /\ BlobWasRead) =>
        /\ outcome.kind = "returned"
        /\ outcome.value.t = "File"
        /\ outcome.value.name = ExpectedFileName

----------------------------------------------------------------------------
(* The structured error *)

\* the errors the call has constructed
Constructed == {trace[i].error : i \in {j \in 1..Len(trace) : trace[j].ev = "construct"}}

\* the exceptions a parse step can raise
ParseExceptions == {BodyReadError, SyntaxError, ReviverError, URIError}

\* C17: each failure kind carries a fixed (response, cause) pair:
\* Serialization (null, the serialization exception); Transport (null, the
\* dispatch exception); Response-Not-Ok (the response, undefined); Redirected
\* (the response, the location string); Parse (the response, the exception of
\* the parse step, in every resolution mode).  An error has a response exactly
\* when the failure came after the transport returned one.
C17_ErrorKindsCarryResponseAndCause ==
    \A err \in Constructed :
        /\ err.method = loc.method
        /\ CASE err.message = "Failed to serialize body" ->
                    /\ ~Happened("fetch")
                    /\ err.response = Null
                    /\ err.cause = JsonTypeError
             [] err.message = "Fetch failed" ->
                    /\ Happened("fetch") /\ ~Responded
                    /\ err.response = Null
                    /\ err.cause \in NetworkErrors
             [] err.message = "Response not ok" ->
                    /\ Responded /\ ~loc.response.ok
                    /\ err.response = loc.response
                    /\ err.cause = Undef
             [] err.message = "Redirected" ->
                    /\ ForcedRedirect
                    /\ err.response = loc.response
                    /\ err.cause = Str(RedirectLocation)
             [] err.message = "Failed to parse response" ->
                    /\ ChecksPassed /\ Happened("read")
                    /\ err.response = loc.response
                    /\ err.cause \in ParseExceptions
             [] OTHER -> FALSE
        /\ (err.response # Null) <=> Responded

\* C17 witness: in file mode a Content-Disposition filename that cannot be
\* decoded made a Parse error carrying the response and the URIError
C17_Witness ==
    /\ req.responseResolution = "file"
    /\ \E err \in Constructed :
        /\ err.message = "Failed to parse response"
        /\ err.response = loc.response
        /\ err.cause = URIError

----------------------------------------------------------------------------
(* The caller's objects *)

\* C18: no step of a call, on any path, changes an object the caller passed:
\* the caller's headers stay as they were also when Content-Type inference or
\* CSRF injection adds headers to the outgoing request, and the caller's
\* query-parameter mapping or pre-built query collection, path-variable map
\* and body stay as they were.
C18_CallerObjectsUntouched ==
    [][/\ req'.headers = req.headers
       /\ req'.queryParams = req.queryParams
       /\ req'.pathVariables = req.pathVariables
       /\ req'.body = req.body]_vars

\* C18 witness: a request went out with headers the pipeline added while the
\* caller's headers are still empty
C18_Witness ==
    /\ Happened("fetch")
    /\ \E i \in 1..Len(trace) :
        /\ trace[i].ev = "fetch"
        /\ DOMAIN trace[i].headers # {}
    /\ req.headers = <<>>

----------------------------------------------------------------------------
(* Order of the steps and the network exchange *)

\* the steps of a call in their order
StepOrder ==
    <<"createUrl", "body", "contentType", "csrf", "fetch", "response",
      "checkOk", "checkRedirect", "read">>

Rank(kind) == CHOOSE k \in 1..Len(StepOrder) : StepOrder[k] = kind

IsStep(kind) == \E k \in 1..Len(StepOrder) : StepOrder[k] = kind

\* C19: within a call the steps run in the order URL-build, body-encode,
\* header-assembly (Content-Type, then CSRF), dispatch, status-check,
\* redirect-check, body-decode: the transport is invoked with the final URL,
\* body and headers; the status check precedes the redirect check, so that a
\* redirected response that is not ok yields Response-Not-Ok, not Redirected;
\* and the body is not read before both checks have passed.
C19_StepsInOrder ==
    /\ \A i, j \in 1..Len(trace) :
        (i < j /\ IsStep(trace[i].ev) /\ IsStep(trace[j].ev)) =>
            Rank(trace[i].ev) < Rank(trace[j].ev)
    /\ \A j \in 1..Len(trace) :
        trace[j].ev = "fetch" =>
            /\ \A k \in 1..4 : \E i \in 1..(j - 1) : trace[i].ev = StepOrder[k]
            /\ trace[j].url = loc.url
            /\ trace[j].body = loc.body
            /\ trace[j].headers = loc.headers
    /\ (Responded /\ ~loc.response.ok) =>
        /\ ~Happened("checkRedirect")
        /\ ~Happened("navigate")
        /\ \A err \in Constructed : err.message = "Response not ok"
    /\ Happened("read") =>
        /\ ChecksPassed
        /\ Happened("checkOk")
        /\ Happened("checkRedirect")

\* C19 witness: under forceFollowRedirects a redirected 403 response failed
\* the status check: Response-Not-Ok, no navigation
C19_Witness ==
    /\ Responded
    /\ ~loc.response.ok
    /\ loc.response.redirected
    /\ req.forceFollowRedirects
    /\ env.hasWindow
    /\ \E err \in Constructed : err.message = "Response not ok"
    /\ outcome.kind = "thrown"

\* C20: a call makes one network exchange: the transport is invoked exactly
\* once in every call whose request preparation succeeds, not at all when body
\* serialization fails, and never a second time, whatever fails afterwards.
C20_OneNetworkExchange ==
    /\ Len(EventsOf("fetch")) <= 1
    /\ Happened("csrf") => Len(EventsOf("fetch")) = 1
    /\ (\E err \in Constructed : err.message = "Failed to serialize body") =>
        ~Happened("fetch")
    /\ Constructed # {} => pc = "done"
    /\ pc = "done" => ~ENABLED Next

\* C20 witness: the transport failed, the call ended with the Transport error
\* and the transport was invoked once
C20_Witness ==
    /\ pc = "done"
    /\ \E err \in Constructed : err.message = "Fetch failed"
    /\ Len(EventsOf("fetch")) = 1

----------------------------------------------------------------------------
(* Body consumption and suspension points *)

\* C21: a call invokes at most one body-consumption operation (json, blob or
\* text) on the response, once; in the modes response, raw and void it invokes
\* none.  The call is suspended only at the network exchange and, in the
\* cases that read the body, at one further point, the body read.
C21_OneBodyReadAtMost ==
    /\ Len(EventsOf("read")) <= 1
    /\ \A i \in 1..Len(trace) :
        trace[i].ev = "read" =>
            /\ trace[i].op \in {"json", "blob", "text"}
            /\ \E j \in 1..(i - 1) : trace[j].ev = "fetch"
    /\ req.responseResolution \in {"response", "raw", "void"} =>
        /\ ~Happened("read")
        /\ pc # "reading"
    /\ pc = "fetching" => trace[Len(trace)].ev = "fetch" /\ ~Happened("read")
    /\ pc = "reading" => trace[Len(trace)].ev = "read"
    /\ pc \in {"init", "fetching", "reading", "done"}
    /\ (ChecksPassed /\ Decoding \in {"json", "blob", "text", "file"}) =>
        Len(EventsOf("read")) = 1

\* C21 witness: in file mode the call is suspended at its body read, the one
\* blob read after the one network exchange
C21_Witness ==
    /\ pc = "reading"
    /\ req.responseResolution = "file"
    /\ EventsOf("read") = <<[ev |-> "read", op |-> "blob"]>>
    /\ Len(EventsOf("fetch")) = 1

----------------------------------------------------------------------------
(* Two calls in flight on one host.  Each call runs its stretches as       *)
(* above; the stretches of the two calls interleave in every order.  The   *)
(* host (document.cookie, window) is shared.                               *)

\* the calls made concurrently
ConcurrentCalls ==
    {[DefaultRequest EXCEPT
        !.method = Str(<<"P", "O", "S", "T">>),
        !.body = PlainObject(<<[k |-> <<"n", "a", "m", "e">>, v |-> <<"a">>]>>),
        !.csrf = [token |-> <<>>, fromCookie |-> <<"c", "s", "r", "f">>, headerName |-> <<>>,
                  defaultMatcher |-> TRUE],
        !.onError = "returns",
        !.forceFollowRedirects = TRUE],
     [DefaultRequest EXCEPT
        !.urlLike = <<"/", "b">>,
        !.forceFollowRedirects = TRUE,
        !.responseResolution = "file",
        !.onError = "throws"],
     [DefaultRequest EXCEPT
        !.urlLike = <<"/", "c">>,
        !.headers = <<[name |-> <<"X", "-", "T", "r", "a", "c", "e">>, value |-> <<"1">>]>>,
        !.jsonReviver = "dates"]}

ConcurrentInit ==
    /\ \E a \in ConcurrentCalls, b \in ConcurrentCalls :
        /\ req = a
        /\ other = [req |-> b, pc |-> "init", loc |-> EmptyLoc, trace |-> <<>>,
                    outcome |-> Pending]
    /\ env = Browser
    /\ pc = "init"
    /\ loc = EmptyLoc
    /\ trace = <<>>
    /\ outcome = Pending
    /\ input = [t |-> "none"]
    /\ output = NotRun
    /\ href = [value |-> PAGE, writtenBy |-> {}]

\* the second call takes a stretch
OtherBecome(next) ==
    /\ other' = [req |-> CallerObjects(other.req, next), pc |-> next.pc,
                 loc |-> next.loc, trace |-> next.trace, outcome |-> next.outcome]
    /\ href' = Navigated(href, 2, other.trace, next.trace)
    /\ UNCHANGED <<req, env, pc, loc, trace, outcome, input, output>>

OtherCall == other.pc = "init" /\ OtherBecome(Prepare(other.req, env))

OtherFetchResolve ==
    /\ other.pc = "fetching"
    /\ \E response \in Responses :
        OtherBecome(AfterResponse(other.req, env, other.loc, other.trace, response))

OtherFetchReject ==
    /\ other.pc = "fetching"
    /\ \E err \in NetworkErrors :
        OtherBecome(Fail(other.req, other.loc, other.trace,
                         XFetchError(other.loc.method, "Fetch failed", Null, err)))

OtherReadSettle ==
    /\ other.pc = "reading"
    /\ \E result \in ReadResults(other.loc.response, other.loc.read.op) :
        OtherBecome(AfterRead(other.req, other.loc, other.trace, result))

ConcurrentNext ==
    \/ Call \/ FetchResolve \/ FetchReject \/ ReadSettle
    \/ OtherCall \/ OtherFetchResolve \/ OtherFetchReject \/ OtherReadSettle

SpecConcurrent == ConcurrentInit /\ [][ConcurrentNext]_vars

\* the first call as a record like the second
FirstCall == [req |-> req, pc |-> pc, loc |-> loc, trace |-> trace, outcome |-> outcome]

InFlight == {FirstCall, other}

\* the call c is at a point that a call with its arguments, alone on the
\* host, reaches: same request sent, same hook invocations, same outcome
RanAsAlone(c) ==
    LET r == c.req
        me == [pc |-> c.pc, loc |-> c.loc, trace |-> c.trace, outcome |-> c.outcome]
        p == Prepare(r, env)
        answered == \E i \in 1..Len(c.trace) : c.trace[i].ev = "response"
    IN IF c.pc = "init" THEN me.trace = <<>> /\ me.outcome = Pending
       ELSE IF c.pc = "fetching" \/ p.pc # "fetching" THEN me = p
       ELSE IF ~answered
       THEN \E err \in NetworkErrors :
                me = Fail(r, p.loc, p.trace,
                          XFetchError(p.loc.method, "Fetch failed", Null, err))
       ELSE LET a == AfterResponse(r, env, p.loc, p.trace, c.loc.response)
            IN \/ me = a
               \/ /\ a.pc = "reading"
                  /\ \E result \in ReadResults(c.loc.response, a.loc.read.op) :
                        me = AfterRead(r, a.loc, a.trace, result)

\* the navigation writes the call c has made
Navigations(c) == SelectSeq(c.trace, LAMBDA x : x.ev = "navigate")

\* C22 as claimed: two calls in flight at the same time, in any interleaving
\* of their suspension points, each send the request, get the outcome and
\* invoke the error hook as when running alone, and no call reads or writes
\* state the other has written.
C22_ConcurrentCallsShareNothing ==
    /\ \A c \in InFlight : RanAsAlone(c)
    /\ env = Browser
    /\ Cardinality(href.writtenBy) <= 1

\* C22 amended: two calls in flight at the same time, in any interleaving,
\* each send the request, get the outcome and invoke the error hook as when
\* running alone, and no call reads state the other has written.  The one
\* thing a call writes outside itself is window.location.href on the forced
\* redirect path, which no call reads: when both calls take that path both
\* write it, and it holds the location one of them wrote.
C22_ConcurrentCallsIndependent ==
    /\ \A c \in InFlight : RanAsAlone(c)
    /\ env = Browser
    /\ href.writtenBy =
         {k \in {1, 2} : Navigations(IF k = 1 THEN FirstCall ELSE other) # <<>>}
    /\ IF href.writtenBy = {} THEN href.value = PAGE
       ELSE \E c \in InFlight :
                /\ Navigations(c) # <<>>
                /\ href.value = Navigations(c)[1].href

\* C22 witness: both calls took the forced redirect path, navigated to
\* different locations and ended by throwing
C22_Witness ==
    /\ other # NoCall
    /\ href.writtenBy = {1, 2}
    /\ Navigations(FirstCall)[1].href # Navigations(other)[1].href
    /\ outcome.kind = "thrown"
    /\ other.outcome.kind = "thrown"

====
